---------------------------- MODULE Spec2Model ----------------------------
(***************************************************************************)
(* Model of the MCDA scoring-and-allocation engine of the dashboard:       *)
(*   - allocateBudget   (app/mcda/page.tsx, inline allocator)              *)
(*   - scoreAndAllocate (lib/mcda.ts)                                      *)
(* JavaScript numbers are modelled as exact rationals [n, d] (d > 0, in    *)
(* lowest terms); d = 0 stands for the non-finite results of a division by *)
(* zero (n > 0: +Infinity, n < 0: -Infinity, n = 0: NaN).                  *)
(* Further parts: the MCDA page (app/mcda/page.tsx), the PxStat proxy      *)
(* route (api/pxstat/[id]/route.ts) and the hook useDemandData             *)
(* (lib/useDemandData.ts).                                                 *)
(***************************************************************************)
EXTENDS Integers, Sequences, FiniteSets, TLC

VARIABLES fn, args, pc, result,
          params, hosp, csv, pending, started, pageRows, lastRun,
          route, hook

callVars == <<fn, args, pc, result>>
pageVars == <<params, hosp, csv, pending, started, pageRows, lastRun>>
ioVars == <<route, hook>>
vars == <<fn, args, pc, result, params, hosp, csv, pending, started, pageRows, lastRun,
          route, hook>>

(***************************************************************************)
(* Bounds of the model.                                                    *)
(***************************************************************************)
MaxRegions == 3
MaxRows == 3
NumLA == 3
MaxRuns == 3

(***************************************************************************)
(* Rational arithmetic (the model of the number type).                     *)
(***************************************************************************)
Abs(x) == IF x < 0 THEN -x ELSE x

RECURSIVE GCD(_, _)
GCD(a, b) == IF b = 0 THEN a ELSE GCD(b, a % b)

Sign(x) == IF x > 0 THEN 1 ELSE IF x < 0 THEN -1 ELSE 0

\* n / d reduced by their common divisor g, the denominator positive
Reduced(n, d, g) ==
    IF d < 0 THEN [n |-> -(n \div g), d |-> -(d \div g)]
    ELSE [n |-> n \div g, d |-> d \div g]

Rat(n, d) ==
    IF d = 0 THEN [n |-> Sign(n), d |-> 0]
    ELSE Reduced(n, d, GCD(Abs(n), Abs(d)))

Int2R(i) == [n |-> i, d |-> 1]
Zero == Int2R(0)
One == Int2R(1)
NaN == [n |-> 0, d |-> 0]

IsFinite(a) == a.d # 0
IsNaN(a) == a.d = 0 /\ a.n = 0

\* a + b over the common denominator a.d * b.d / g
AddOver(a, b, g) ==
    Rat(a.n * (b.d \div g) + b.n * (a.d \div g), (a.d \div g) * b.d)

RAdd(a, b) ==
    IF a.d = 0 \/ b.d = 0
    THEN IF IsNaN(a) \/ IsNaN(b) \/ (a.d = 0 /\ b.d = 0 /\ a.n # b.n) THEN NaN
         ELSE IF a.d = 0 THEN a ELSE b
    ELSE AddOver(a, b, GCD(a.d, b.d))

RNeg(a) == [n |-> -a.n, d |-> a.d]
RSub(a, b) == RAdd(a, RNeg(b))

\* a * b with the cross divisors g1 and g2 taken out
MulOver(a, b, g1, g2) ==
    Rat((a.n \div g1) * (b.n \div g2), (a.d \div g2) * (b.d \div g1))

RMul(a, b) ==
    IF a.d = 0 \/ b.d = 0
    THEN IF IsNaN(a) \/ IsNaN(b) \/ a.n = 0 \/ b.n = 0 THEN NaN
         ELSE [n |-> Sign(a.n) * Sign(b.n), d |-> 0]
    ELSE MulOver(a, b, GCD(Abs(a.n), b.d), GCD(Abs(b.n), a.d))

\* a / b as JavaScript computes it: x/0 is +-Infinity, 0/0 is NaN
RDiv(a, b) ==
    IF a.d = 0 \/ b.d = 0
    THEN IF IsNaN(a) \/ IsNaN(b) \/ (a.d = 0 /\ b.d = 0) THEN NaN
         ELSE IF b.d = 0 THEN Zero
         ELSE [n |-> Sign(a.n) * (IF b.n < 0 THEN -1 ELSE 1), d |-> 0]
    ELSE IF b.n = 0 THEN [n |-> Sign(a.n), d |-> 0]
    ELSE RMul(a, [n |-> Sign(b.n) * b.d, d |-> Abs(b.n)])

\* a < b for finite a and b, g the common divisor of the denominators
LtOver(a, b, g) == a.n * (b.d \div g) < b.n * (a.d \div g)

\* a < b; every comparison with NaN is false
RLt(a, b) ==
    IF IsNaN(a) \/ IsNaN(b) THEN FALSE
    ELSE IF a.d = 0 THEN a.n < 0 /\ ~(b.d = 0 /\ b.n < 0)
    ELSE IF b.d = 0 THEN b.n > 0
    ELSE LtOver(a, b, GCD(a.d, b.d))

RLe(a, b) == ~IsNaN(a) /\ ~IsNaN(b) /\ ~RLt(b, a)
RGt(a, b) == RLt(b, a)

\* Math.max / Math.min of two numbers (NaN if either is NaN)
RMax(a, b) == IF IsNaN(a) \/ IsNaN(b) THEN NaN ELSE IF RLt(a, b) THEN b ELSE a
RMin(a, b) == IF IsNaN(a) \/ IsNaN(b) THEN NaN ELSE IF RLt(b, a) THEN b ELSE a

\* x || 1: 0 and NaN are falsy
OrOne(a) == IF IsNaN(a) \/ (a.d # 0 /\ a.n = 0) THEN One ELSE a

\* xs.reduce((s, v) => s + v, 0)
RECURSIVE RSum(_)
RSum(xs) == IF xs = <<>> THEN Zero ELSE RAdd(RSum(SubSeq(xs, 1, Len(xs) - 1)), xs[Len(xs)])

\* the sum of xs over the indices in keep (names.filter(...).reduce(...))
RSumOver(xs, keep) == RSum([i \in 1..Len(xs) |-> IF i \in keep THEN xs[i] ELSE Zero])

(***************************************************************************)
(* allocateBudget(scores, budget, opts)                                    *)
(* scores is the score map: region i of 1..Len(scores) is its i-th key.    *)
(* opts = [maxShare, minEuro, ruralUplift, ruralSet].                      *)
(***************************************************************************)
\* clamp at 0, uplift for the regions of ruralSet
abBoosted(scores, opts) ==
    [i \in 1..Len(scores) |->
        LET b == RMax(Zero, scores[i])
        IN IF i \in opts.ruralSet THEN RMul(b, RAdd(One, opts.ruralUplift)) ELSE b]

\* abEqualSplit handing the whole remainder over the floors to the first region
abEqualSplit_FirstTakesRest(N, budget, opts) ==
    LET floors == RMul(RMax(Zero, opts.minEuro), Int2R(N))
        rest == RMax(Zero, RSub(budget, floors))
    IN [i \in 1..N |-> RAdd(RMax(Zero, opts.minEuro), IF i = 1 THEN rest ELSE Zero)]

\* the equal split taken when the boosted scores sum to <= 0
abEqualSplit(N, budget, opts) ==
    LET floors == RMul(RMax(Zero, opts.minEuro), Int2R(N))
        even == RMax(Zero, RDiv(RSub(budget, floors), Int2R(N)))
    IN [i \in 1..N |-> RAdd(RMax(Zero, opts.minEuro), RMax(Zero, even))]

\* the proportional pass
abProportional(boosted, total, budget) ==
    [i \in 1..Len(boosted) |-> RMul(RDiv(boosted[i], total), budget)]

\* abFloor without the raise to minEuro
abFloor_NoRaise(alloc, opts) == alloc

\* abFloor with the deficit split evenly over the donors
abFloor_EqualDonors(alloc, opts) ==
    LET names == 1..Len(alloc)
        low == {i \in names : RLt(alloc[i], opts.minEuro)}
        deficit == RSumOver([i \in names |-> RSub(opts.minEuro, alloc[i])], low)
        raised == [i \in names |-> IF i \in low THEN opts.minEuro ELSE alloc[i]]
        donors == {i \in names : RGt(raised[i], opts.minEuro)}
    IN IF RGt(deficit, Zero)
       THEN [i \in names |->
                IF i \in donors
                THEN RSub(raised[i], RDiv(deficit, Int2R(Cardinality(donors))))
                ELSE raised[i]]
       ELSE raised

\* the floor pass: raise to minEuro, recover the deficit from the donors
abFloor(alloc, opts) ==
    LET names == 1..Len(alloc)
        low == {i \in names : RLt(alloc[i], opts.minEuro)}
        deficit == RSumOver([i \in names |-> RSub(opts.minEuro, alloc[i])], low)
        raised == [i \in names |-> IF i \in low THEN opts.minEuro ELSE alloc[i]]
        donors == {i \in names : RGt(raised[i], opts.minEuro)}
        pool == OrOne(RSumOver([i \in names |-> RSub(raised[i], opts.minEuro)], donors))
    IN IF RGt(deficit, Zero)
       THEN [i \in names |->
                IF i \in donors
                THEN RSub(raised[i],
                          RMul(RDiv(RSub(raised[i], opts.minEuro), pool), deficit))
                ELSE raised[i]]
       ELSE raised

\* cap = budget * max(0, min(1, maxShare || 1))
abCapEuro(budget, opts) ==
    RMul(budget, RMax(Zero, RMin(One, OrOne(opts.maxShare))))

\* the cap pass: clip to cap, hand the excess to the receivers by boosted score
abCap(alloc, boosted, budget, opts) ==
    LET names == 1..Len(alloc)
        cap == abCapEuro(budget, opts)
        high == {i \in names : RGt(alloc[i], cap)}
        excess == RSumOver([i \in names |-> RSub(alloc[i], cap)], high)
        clipped == [i \in names |-> IF i \in high THEN cap ELSE alloc[i]]
        receivers == {i \in names : RLt(clipped[i], cap)}
        wsum0 == RSumOver(boosted, receivers)
        wsum == IF wsum0 = Zero THEN Int2R(Cardinality(receivers)) ELSE wsum0
        part(i) == IF wsum # Zero THEN RDiv(boosted[i], wsum)
                   ELSE RDiv(One, Int2R(Cardinality(receivers)))
    IN IF RGt(excess, Zero)
       THEN [i \in names |->
                IF i \in receivers THEN RAdd(clipped[i], RMul(part(i), excess))
                ELSE clipped[i]]
       ELSE clipped

\* abRescale without the rescaling
abRescale_NoRescale(alloc, budget) == alloc

\* abRescale looping over one key more than the map has: that entry becomes NaN
abRescale_ExtraKey(alloc, budget) ==
    LET k == RDiv(budget, OrOne(RSum(alloc)))
    IN [i \in 1..(Len(alloc) + 1) |-> IF i <= Len(alloc) THEN RMul(alloc[i], k) ELSE NaN]

\* the final rescaling by k = budget / (sum || 1)
abRescale(alloc, budget) ==
    LET k == RDiv(budget, OrOne(RSum(alloc)))
    IN [i \in 1..Len(alloc) |-> RMul(alloc[i], k)]

\* the allocation before the final rescaling, with the stages it went through
abStages(scores, budget, opts) ==
    LET boosted == abBoosted(scores, opts)
        total == RSum(boosted)
    IN IF RLe(total, Zero)
       THEN LET e == abEqualSplit(Len(scores), budget, opts)
            IN [boosted |-> boosted, total |-> total, base |-> e, floored |-> e, capped |-> e]
       ELSE LET p == abProportional(boosted, total, budget)
                f == abFloor(p, opts)
                c == abCap(f, boosted, budget, opts)
            IN [boosted |-> boosted, total |-> total, base |-> p, floored |-> f, capped |-> c]

allocateBudget(scores, budget, opts) ==
    abRescale(abStages(scores, budget, opts).capped, budget)


(***************************************************************************)
(* scoreAndAllocate(rows, w, opt)                                          *)
(* An optional field that is absent holds Undefined.                       *)
(***************************************************************************)
Undefined == [n |-> 0, d |-> -1]

\* x ?? dflt
OrElse(x, dflt) == IF x = Undefined THEN dflt ELSE x

\* the truthiness of an optional number: undefined, 0 and NaN are falsy
Truthy(x) == x # Undefined /\ ~IsNaN(x) /\ ~(x.d # 0 /\ x.n = 0)

\* Math.round: the nearest integer, halves rounded up
RRound(a) == IF a.d = 0 THEN a ELSE Int2R((2 * a.n + a.d) \div (2 * a.d))

RECURSIVE RMinOf(_)
RMinOf(xs) == IF Len(xs) = 1 THEN xs[1] ELSE RMin(RMinOf(Tail(xs)), xs[1])

RECURSIVE RMaxOf(_)
RMaxOf(xs) == IF Len(xs) = 1 THEN xs[1] ELSE RMax(RMaxOf(Tail(xs)), xs[1])

\* the range of the finite values
rng(vals) ==
    LET xs == SelectSeq(vals, IsFinite)
    IN IF Len(xs) = 0 THEN [min |-> Zero, max |-> One]
       ELSE [min |-> RMinOf(xs), max |-> RMaxOf(xs)]

Half == Rat(1, 2)

\* mm giving 0 instead of 0.5 on a degenerate range
mm_DegenerateZero(x, r) ==
    IF r.max = r.min THEN Zero ELSE RDiv(RSub(x, r.min), RSub(r.max, r.min))

\* mmInv without the inversion
mmInv_NotInverted(x, r) ==
    IF r.max = r.min THEN Half ELSE RDiv(RSub(x, r.min), RSub(r.max, r.min))

mm(x, r) == IF r.max = r.min THEN Half ELSE RDiv(RSub(x, r.min), RSub(r.max, r.min))

mmInv(x, r) == IF r.max = r.min THEN Half ELSE RDiv(RSub(r.max, x), RSub(r.max, r.min))

\* the normalized indicators of every row (sGrowth, sOadr, sHInv, sIInv, sGInv)
saNorm(rows) ==
    LET col(f) == [i \in 1..Len(rows) |-> rows[i][f]]
        gR == rng(col("growth65"))
        oR == rng(col("oadr"))
        hR == rng(col("dwellingsPer1k65"))
        iR == rng(col("medianIncome"))
        eR == rng(col("grantsPer65"))
    IN [i \in 1..Len(rows) |->
          [growth65 |-> mm(rows[i].growth65, gR),
           oadr |-> mm(rows[i].oadr, oR),
           dwellingsPer1k65 |-> mmInv(rows[i].dwellingsPer1k65, hR),
           medianIncome |-> mmInv(rows[i].medianIncome, iR),
           grantsPer65 |-> mmInv(rows[i].grantsPer65, eR)]]

\* the weighted sum of the normalized indicators of every row
saWeighted(rows, w) ==
    LET s == saNorm(rows)
    IN [i \in 1..Len(rows) |->
          RAdd(RAdd(RAdd(RAdd(RMul(w.wGrowth, s[i].growth65),
                              RMul(w.wOadr, s[i].oadr)),
                         RMul(w.wHousingInv, s[i].dwellingsPer1k65)),
                    RMul(w.wIncomeInv, s[i].medianIncome)),
               RMul(w.wGrantsInv, s[i].grantsPer65))]

\* saItems using ruralIndex as given, not limited to [0,1]
saItems_UnclampedIndex(rows, w, opt) ==
    LET ws == saWeighted(rows, w)
    IN [i \in 1..Len(rows) |->
          LET r == rows[i]
              ri == OrElse(r.ruralIndex, Zero)
              score == IF Truthy(opt.ruralUplift) /\ RGt(opt.ruralUplift, Zero)
                       THEN RMul(ws[i], RAdd(One, RMul(opt.ruralUplift, ri)))
                       ELSE ws[i]
          IN [la |-> r.la, score |-> score]]

\* the composite score of every row: the weighted sum with the rural uplift
saItems(rows, w, opt) ==
    LET ws == saWeighted(rows, w)
    IN [i \in 1..Len(rows) |->
          LET r == rows[i]
              ri == RMax(Zero, RMin(One, OrElse(r.ruralIndex, Zero)))
              score == IF Truthy(opt.ruralUplift) /\ RGt(opt.ruralUplift, Zero)
                       THEN RMul(ws[i], RAdd(One, RMul(opt.ruralUplift, ri)))
                       ELSE ws[i]
          IN [la |-> r.la, score |-> score]]

\* saShares dividing by the number of rows instead of the total score
saShares_ByCount(items) ==
    [i \in 1..Len(items) |->
        [la |-> items[i].la, score |-> items[i].score,
         share |-> RDiv(items[i].score, Int2R(Len(items)))]]

\* saShares leaving the scores undivided
saShares_Undivided(items) ==
    [i \in 1..Len(items) |->
        [la |-> items[i].la, score |-> items[i].score, share |-> items[i].score]]

\* the shares: score / (total score || 1)
saShares(items) ==
    LET totalScore == OrOne(RSum([i \in 1..Len(items) |-> items[i].score]))
    IN [i \in 1..Len(items) |->
          [la |-> items[i].la, score |-> items[i].score,
           share |-> RDiv(items[i].score, totalScore)]]

\* room.find(x => x.la === a.la): the first entry with that la
FindLa(allocs, la) == CHOOSE j \in 1..Len(allocs) :
                         /\ allocs[j].la = la
                         /\ \A k \in 1..(j - 1) : allocs[k].la # la

\* saEuros with the remainder topped up evenly, whatever room a row has
saEuros_EvenTopUp(allocs, opt) ==
    LET B == opt.budgetEUR
        names == 1..Len(allocs)
    IN IF Truthy(opt.floorEUR) \/ Truthy(opt.capShare)
       THEN LET floor == RMax(Zero, OrElse(opt.floorEUR, Zero))
                cap == RMax(Zero, RMin(One, OrElse(opt.capShare, One)))
                capB == RMul(cap, B)
                eur == [i \in names |->
                          RMin(RMax(RMul(allocs[i].share, B), floor), capB)]
                rem == RMax(Zero, RSub(B, RSum(eur)))
            IN [i \in names |-> RAdd(eur[i], RDiv(rem, Int2R(Len(allocs))))]
       ELSE [i \in names |-> RMul(allocs[i].share, B)]

\* the floor / cap logic: the euros of every row, before rounding
saEuros(allocs, opt) ==
    LET B == opt.budgetEUR
        names == 1..Len(allocs)
    IN IF Truthy(opt.floorEUR) \/ Truthy(opt.capShare)
       THEN LET floor == RMax(Zero, OrElse(opt.floorEUR, Zero))
                cap == RMax(Zero, RMin(One, OrElse(opt.capShare, One)))
                capB == RMul(cap, B)
                eur == [i \in names |->
                          RMin(RMax(RMul(allocs[i].share, B), floor), capB)]
                spent == RSum(eur)
                rem == RMax(Zero, RSub(B, spent))
                room == [i \in names |-> RSub(capB, eur[i])]
                roomTotal == OrOne(RSum([i \in names |-> RMax(Zero, room[i])]))
            IN [i \in names |->
                  LET r == room[FindLa(allocs, allocs[i].la)]
                      topUp == RMul(RDiv(RMax(Zero, r), roomTotal), rem)
                  IN RAdd(eur[i], topUp)]
       ELSE [i \in names |-> RMul(allocs[i].share, B)]

\* Array.prototype.sort with (x, y) => y.eur - x.eur: stable, descending eur
RECURSIVE InsertDesc(_, _)
InsertDesc(sorted, a) ==
    IF sorted = <<>> THEN <<a>>
    ELSE IF RLt(Head(sorted).eur, a.eur) THEN <<a>> \o sorted
    ELSE <<Head(sorted)>> \o InsertDesc(Tail(sorted), a)

RECURSIVE SortDesc(_)
SortDesc(xs) ==
    IF xs = <<>> THEN <<>>
    ELSE InsertDesc(SortDesc(SubSeq(xs, 1, Len(xs) - 1)), xs[Len(xs)])

\* the rows of the result in input order: eur rounded to a whole euro
saRounded(rows, w, opt) ==
    LET allocs == saShares(saItems(rows, w, opt))
        eur == saEuros(allocs, opt)
    IN [i \in 1..Len(allocs) |->
          [la |-> allocs[i].la, score |-> allocs[i].score,
           share |-> allocs[i].share, eur |-> RRound(eur[i])]]

scoreAndAllocate(rows, w, opt) == SortDesc(saRounded(rows, w, opt))

(***************************************************************************)
(* The inputs the engine is called with.                                   *)
(***************************************************************************)
ScoreVals == {Rat(k, 2) : k \in -1..2}
ScoreMaps == UNION {[1..N -> ScoreVals] : N \in 0..MaxRegions}
Budgets == {Int2R(b) : b \in {-100000, 0, 100000, 200000, 300000}}
MinEuros == {Zero, Int2R(50000), Int2R(100000)}
MaxShares == {Zero, Rat(1, 4), Rat(1, 3), Rat(1, 2), One}
Uplifts == {Zero, Rat(3, 20), Rat(1, 4)}
RuralSets == {{}, {1}}

abArgs ==
    [scores : ScoreMaps, budget : Budgets,
     opts : [maxShare : MaxShares, minEuro : MinEuros,
             ruralUplift : Uplifts, ruralSet : RuralSets]]

\* the rows: region i has la = i; growth65 varies
IndicatorVals == {<<g, m>> : g \in {10, 20, 30}, m \in {1}}

MkRow(i, v) ==
    [la |-> i, growth65 |-> Int2R(v[1]), oadr |-> One, dwellingsPer1k65 |-> One,
     medianIncome |-> Int2R(v[2]), grantsPer65 |-> One, ruralIndex |-> Undefined]

RowSets ==
    UNION {{[i \in 1..N |-> MkRow(i, f[i])] : f \in [1..N -> IndicatorVals]} :
             N \in 0..MaxRows}

MkWeights(g, o, h, i, e) ==
    [wGrowth |-> g, wOadr |-> o, wHousingInv |-> h, wIncomeInv |-> i, wGrantsInv |-> e]

\* growth only; the documented default weights; all zero
WeightSets ==
    {MkWeights(One, Zero, Zero, Zero, Zero),
     MkWeights(Rat(3, 10), Rat(1, 4), Rat(1, 5), Rat(3, 20), Rat(1, 10)),
     MkWeights(Zero, Zero, Zero, Zero, Zero)}

FloorEURs == {Undefined, Zero, Int2R(50000), Int2R(100000)}
CapShares == {Undefined, Zero, Rat(1, 4), Rat(1, 3), Rat(1, 2), One, Int2R(2)}

saArgs ==
    [rows : RowSets, w : WeightSets,
     opt : [ruralUplift : {Undefined}, floorEUR : FloorEURs, capShare : CapShares,
            budgetEUR : Budgets]]

(***************************************************************************)
(* The MCDA page (app/mcda/page.tsx).  The local authorities of LA_LIST    *)
(* are 1..NumLA, the first one a Dublin authority; amounts are in million  *)
(* euro.  State: params (budget, ruralUplift, maxShare, minEuro), hosp,    *)
(* pageRows (the rows state); csv is the position of the CSV load effect;  *)
(* pending holds the compute effects waiting for the backend, each with    *)
(* the params and hosp of the render that started it; lastRun holds the    *)
(* run and the response of the compute effect that called setRows last.    *)
(***************************************************************************)
LA_LIST == 1..NumLA
dubs == {1}
ruralSet == LA_LIST \ dubs

Defaults ==
    [budget |-> Int2R(117), ruralUplift |-> Rat(3, 20),
     maxShare |-> Rat(3, 25), minEuro |-> Rat(1, 4)]

\* one euro, in million euro
OneEuro == Rat(1, 1000000)

\* x || 0
OrZero(x) == IF Truthy(x) THEN x ELSE Zero

\* null (a failed request) or the scores object of the response
NullScores == [isNull |-> TRUE, scores |-> <<>>]
SomeScores(s) == [isNull |-> FALSE, scores |-> s]

\* fetchBackendScores answering with the scores of a response that is not ok
fetchBackendScores_IgnoreOk(resp) ==
    IF resp.fetch = "throws" THEN NullScores
    ELSE IF resp.body.tag = "invalid" THEN NullScores
    ELSE IF resp.body.tag = "noScores" THEN NullScores
    ELSE SomeScores(resp.body.scores)

\* the response: fetch throws, or resolves with ok and a body that is invalid
\* JSON, JSON without scores (or scores: null), or JSON with a scores object
fetchBackendScores(resp) ==
    IF resp.fetch = "throws" THEN NullScores
    ELSE IF ~resp.ok THEN NullScores
    ELSE IF resp.body.tag = "invalid" THEN NullScores
    ELSE IF resp.body.tag = "noScores" THEN NullScores
    ELSE SomeScores(resp.body.scores)

\* hosp[la] ?? the zero row; hospitals_per_100k_65: null is Undefined
NoHospRow ==
    [hospitals_total |-> Zero, acute_hospitals_count |-> Zero,
     hospitals_per_100k_65 |-> Undefined]
hospRow(h, la) == IF la \in DOMAIN h THEN h[la] ELSE NoHospRow

\* the fallback score: inverse of access per 100k, else inverse of site count
fallbackScores(h) ==
    [la \in LA_LIST |->
        LET r == hospRow(h, la)
        IN IF Truthy(r.hospitals_per_100k_65) /\ RGt(r.hospitals_per_100k_65, Zero)
           THEN RDiv(One, r.hospitals_per_100k_65)
           ELSE IF Truthy(r.hospitals_total) /\ RGt(r.hospitals_total, Zero)
                THEN RDiv(One, r.hospitals_total)
                ELSE Zero]

\* m[la] ?? 0 on a map whose keys are 1..Len(m)
atOrZero(m, la) == IF la \in 1..Len(m) THEN m[la] ELSE Zero

\* Array.prototype.sort with (a, b) => b.euros - a.euros: stable, descending
RECURSIVE InsertByEuros(_, _)
InsertByEuros(sorted, a) ==
    IF sorted = <<>> THEN <<a>>
    ELSE IF RLt(Head(sorted).euros, a.euros) THEN <<a>> \o sorted
    ELSE <<Head(sorted)>> \o InsertByEuros(Tail(sorted), a)

RECURSIVE SortByEuros(_)
SortByEuros(xs) ==
    IF xs = <<>> THEN <<>>
    ELSE InsertByEuros(SortByEuros(SubSeq(xs, 1, Len(xs) - 1)), xs[Len(xs)])

\* the rows published for a score map and its allocation
outRows(scores, euros, p, h) ==
    LET scoreSum == OrOne(RSum([k \in 1..Len(scores) |-> RMax(Zero, scores[k])]))
    IN SortByEuros(
          [la \in LA_LIST |->
              [la |-> la,
               score |-> RDiv(RMax(Zero, atOrZero(scores, la)), scoreSum),
               hospitals |-> hospRow(h, la).hospitals_total,
               accessPer100k65 |-> hospRow(h, la).hospitals_per_100k_65,
               share |-> RDiv(atOrZero(euros, la), RMax(OneEuro, p.budget)),
               euros |-> atOrZero(euros, la)]])

\* the compute effect after the backend answered: server ?? fallback, the
\* allocation and the rows given to setRows
computeRows(run, server) ==
    LET fallback == fallbackScores(run.hosp)
        scores == IF server.isNull THEN fallback ELSE server.scores
        p == run.params
        euros == allocateBudget(scores, p.budget,
                    [maxShare |-> p.maxShare, minEuro |-> p.minEuro,
                     ruralUplift |-> p.ruralUplift, ruralSet |-> ruralSet])
    IN outRows(scores, euros, p, run.hosp)

NoRun == [run |-> [id |-> 0], response |-> [fetch |-> "none"]]

\* the page is not mounted
PageUnmounted ==
    /\ params = Defaults
    /\ hosp = <<>>
    /\ csv = "idle"
    /\ pending = {}
    /\ started = 0
    /\ pageRows = <<>>
    /\ lastRun = NoRun

(***************************************************************************)
(* The PxStat proxy route (api/pxstat/[id]/route.ts).  route is one        *)
(* activation: entry is the function the environment called (GET, or       *)
(* fetchWithRetry on its own), pc its position, i and lastErr the locals   *)
(* of fetchWithRetry, inFlight the number of fetches awaiting an answer,   *)
(* settled the outcomes of the fetches that have settled, in order, res    *)
(* the response fetchWithRetry returned, thrown the value it threw,        *)
(* answers the responses GET returned, escaped whether GET rejected.       *)
(***************************************************************************)
UndefinedErr == [kind |-> "undefined"]
NoErr == [kind |-> "none"]
NoRes == [kind |-> "none"]

NoRoute ==
    [entry |-> "none", tries |-> 0, pc |-> "idle", i |-> 0, lastErr |-> UndefinedErr,
     inFlight |-> 0, settled |-> <<>>, res |-> NoRes, thrown |-> NoErr,
     answers |-> <<>>, escaped |-> FALSE]

RouteIdle == route = NoRoute

(***************************************************************************)
(* The hook useDemandData (lib/useDemandData.ts).  hook.deps is the value  *)
(* of the effect's dependencies, st the part of the state the loads write  *)
(* (loading, err, and the data with the parameters it was computed for),   *)
(* loads the effect runs whose fetches have not settled, each with its     *)
(* cancelled flag, latest the outcome of the load of the latest run once   *)
(* it has settled, skipped the number of loads that settled cancelled.     *)
(***************************************************************************)
NoData == [of |-> 0]
NoOutcome == [kind |-> "none"]

NoHook ==
    [mounted |-> FALSE, deps |-> 0, started |-> 0,
     st |-> [loading |-> TRUE, err |-> "null", data |-> NoData],
     loads |-> {}, latest |-> NoOutcome, skipped |-> 0]

HookUnmounted == hook = NoHook

NoResult == [outcome |-> "none"]

Init ==
    /\ PageUnmounted
    /\ RouteIdle
    /\ HookUnmounted
    /\ pc = "ready"
    /\ result = NoResult
    /\ \/ fn = "allocateBudget" /\ args \in abArgs
       \/ fn = "scoreAndAllocate" /\ args \in saArgs

\* one call of allocateBudget; the function has no throw statement and no
\* operation that throws on numbers, so every call returns a map
CallAllocateBudget ==
    /\ pc = "ready"
    /\ fn = "allocateBudget"
    /\ pc' = "done"
    /\ result' = [outcome |-> "returned",
                  stages |-> abStages(args.scores, args.budget, args.opts),
                  alloc |-> allocateBudget(args.scores, args.budget, args.opts)]
    /\ UNCHANGED <<fn, args>>
    /\ UNCHANGED pageVars
    /\ UNCHANGED ioVars

\* one call of scoreAndAllocate; it has no throw statement either
CallScoreAndAllocate ==
    /\ pc = "ready"
    /\ fn = "scoreAndAllocate"
    /\ pc' = "done"
    /\ result' = [outcome |-> "returned",
                  norm |-> saNorm(args.rows),
                  weighted |-> saWeighted(args.rows, args.w),
                  eur |-> saEuros(saShares(saItems(args.rows, args.w, args.opt)), args.opt),
                  rounded |-> saRounded(args.rows, args.w, args.opt),
                  rows |-> scoreAndAllocate(args.rows, args.w, args.opt)]
    /\ UNCHANGED <<fn, args>>
    /\ UNCHANGED pageVars
    /\ UNCHANGED ioVars

Next == CallAllocateBudget \/ CallScoreAndAllocate

Spec == Init /\ [][Next]_vars

(***************************************************************************)
(* Calls of scoreAndAllocate on rows whose five indicators vary and may be *)
(* non-finite: oadr follows growth65; dwellingsPer1k65 and grantsPer65     *)
(* follow medianIncome.                                                    *)
(***************************************************************************)
PosInf == [n |-> 1, d |-> 0]
BenefitVals == {Int2R(10), Int2R(20), Int2R(30), NaN}
CostVals == {Int2R(1), Int2R(2), PosInf}

MkRowNorm(i, g, m) ==
    [la |-> i, growth65 |-> g, oadr |-> g, dwellingsPer1k65 |-> m,
     medianIncome |-> m, grantsPer65 |-> m, ruralIndex |-> Undefined]

RowSetsNorm ==
    UNION {{[i \in 1..N |-> MkRowNorm(i, g[i], m[i])] :
               g \in [1..N -> BenefitVals], m \in [1..N -> CostVals]} :
             N \in 0..MaxRows}

saArgsNorm ==
    [rows : RowSetsNorm,
     w : {MkWeights(One, Zero, Zero, Zero, Zero),
          MkWeights(Rat(3, 10), Rat(1, 4), Rat(1, 5), Rat(3, 20), Rat(1, 10))},
     opt : [ruralUplift : {Undefined}, floorEUR : {Undefined}, capShare : {Undefined},
            budgetEUR : {Int2R(300000)}]]

InitNorm ==
    /\ PageUnmounted
    /\ RouteIdle
    /\ HookUnmounted
    /\ pc = "ready"
    /\ result = NoResult
    /\ fn = "scoreAndAllocate"
    /\ args \in saArgsNorm

NextNorm == CallScoreAndAllocate

SpecNorm == InitNorm /\ [][NextNorm]_vars

(***************************************************************************)
(* Calls with a rural uplift: scoreAndAllocate on rows with a ruralIndex   *)
(* (absent, below 0, inside and above [0,1]) and allocateBudget with a     *)
(* rural set, the uplift inside and outside [0, 0.25].                     *)
(***************************************************************************)
RuralIndexVals == {Undefined, Int2R(-1), Half, Int2R(2)}
UpliftVals == {Rat(-1, 10), Zero, Rat(3, 20), Rat(1, 4), Half}

MkRowUplift(i, g, ri) == [MkRow(i, <<g, 1>>) EXCEPT !.ruralIndex = ri]

RowSetsUplift ==
    UNION {{[i \in 1..N |-> MkRowUplift(i, g[i], ri[i])] :
               g \in [1..N -> {10, 20}], ri \in [1..N -> RuralIndexVals]} :
             N \in 0..MaxRows}

saArgsUplift ==
    [rows : RowSetsUplift,
     w : {MkWeights(One, Zero, Zero, Zero, Zero),
          MkWeights(Rat(3, 10), Rat(1, 4), Rat(1, 5), Rat(3, 20), Rat(1, 10))},
     opt : [ruralUplift : {Undefined} \cup UpliftVals, floorEUR : {Undefined},
            capShare : {Undefined}, budgetEUR : {Int2R(300000)}]]

abArgsUplift ==
    [scores : ScoreMaps, budget : {Int2R(300000)},
     opts : [maxShare : {One}, minEuro : {Zero},
             ruralUplift : UpliftVals, ruralSet : RuralSets]]

InitUplift ==
    /\ PageUnmounted
    /\ RouteIdle
    /\ HookUnmounted
    /\ pc = "ready"
    /\ result = NoResult
    /\ \/ fn = "allocateBudget" /\ args \in abArgsUplift
       \/ fn = "scoreAndAllocate" /\ args \in saArgsUplift

NextUplift == CallAllocateBudget \/ CallScoreAndAllocate

SpecUplift == InitUplift /\ [][NextUplift]_vars

(***************************************************************************)
(* Calls of scoreAndAllocate with a positive budget, with and without a    *)
(* floor and a cap, for the relations between two calls.                   *)
(***************************************************************************)
saArgsSA ==
    [rows : RowSets, w : WeightSets,
     opt : [ruralUplift : {Undefined},
            floorEUR : {Undefined, Int2R(50000), Int2R(100000)},
            capShare : {Undefined, Rat(1, 3), Rat(1, 2)},
            budgetEUR : {Int2R(300000)}]]

InitSA ==
    /\ PageUnmounted
    /\ RouteIdle
    /\ HookUnmounted
    /\ pc = "ready"
    /\ result = NoResult
    /\ fn = "scoreAndAllocate"
    /\ args \in saArgsSA

NextSA == CallScoreAndAllocate

SpecSA == InitSA /\ [][NextSA]_vars

(***************************************************************************)
(* The MCDA page after mounting: both effects have started; the CSV load   *)
(* ends, the inputs are edited and the backend answers the compute effects *)
(* in any order.                                                           *)
(***************************************************************************)
\* what the CSV load can give setHosp: every authority filled, with site
\* counts only (none for the first one), with access per 100k
HospMaps ==
    {[la \in LA_LIST |-> [NoHospRow EXCEPT !.hospitals_total = Int2R(la - 1)]],
     [la \in LA_LIST |-> [NoHospRow EXCEPT !.hospitals_total = Int2R(2),
                                           !.hospitals_per_100k_65 = Int2R(NumLA + 1 - la)]]}

\* the scores objects of the backend: the keys of LA_LIST, one more key
ServerScores ==
    {[k \in 1..K |-> Int2R(k)] : K \in {NumLA, NumLA + 1}}

Responses ==
    {[fetch |-> "throws", ok |-> FALSE, body |-> [tag |-> "invalid"]]}
    \cup {[fetch |-> "resolves", ok |-> FALSE, body |-> b] :
             b \in {[tag |-> "scores", scores |-> [k \in LA_LIST |-> Int2R(k)]]}}
    \cup {[fetch |-> "resolves", ok |-> TRUE, body |-> b] :
             b \in {[tag |-> "invalid"], [tag |-> "noScores"]}
                   \cup {[tag |-> "scores", scores |-> s] : s \in ServerScores}}

\* Number(e.target.value) of the four inputs
BudgetInputs == {NaN}
UpliftInputs == {NaN, Int2R(-1), Half}
MaxShareInputs == {NaN, Int2R(2)}
MinEuroInputs == {NaN, Int2R(-5)}

CallIdle ==
    /\ fn = "none"
    /\ args = <<>>
    /\ pc = "idle"
    /\ result = NoResult

InitPage ==
    /\ CallIdle
    /\ RouteIdle
    /\ HookUnmounted
    /\ params = Defaults
    /\ hosp = <<>>
    /\ csv = "loading"
    /\ pending = {[id |-> 1, params |-> Defaults, hosp |-> <<>>]}
    /\ started = 1
    /\ pageRows = <<>>
    /\ lastRun = NoRun

\* the compute effect runs after a render that changed one of its dependencies
StartCompute(p, h) ==
    /\ started < MaxRuns
    /\ started' = started + 1
    /\ pending' = pending \cup {[id |-> started + 1, params |-> p, hosp |-> h]}

\* the CSV load ends with setHosp(acc)
LoadCsv ==
    /\ csv = "loading"
    /\ \E acc \in HospMaps :
          /\ hosp' = acc
          /\ StartCompute(params, acc)
    /\ csv' = "loaded"
    /\ UNCHANGED <<params, pageRows, lastRun>>
    /\ UNCHANGED callVars
    /\ UNCHANGED ioVars

\* the CSV load ends in the catch: setError(message)
LoadCsvFails ==
    /\ csv = "loading"
    /\ csv' = "failed"
    /\ UNCHANGED <<params, hosp, pending, started, pageRows, lastRun>>
    /\ UNCHANGED callVars
    /\ UNCHANGED ioVars

\* a state setter with a value that differs from the state: render and effect
SetParams(p) ==
    /\ p # params
    /\ params' = p
    /\ StartCompute(p, hosp)
    /\ UNCHANGED <<hosp, csv, pageRows, lastRun>>
    /\ UNCHANGED callVars
    /\ UNCHANGED ioVars

onChangeBudget ==
    \E v \in BudgetInputs : SetParams([params EXCEPT !.budget = OrZero(v)])

onChangeRuralUplift ==
    \E v \in UpliftInputs :
        SetParams([params EXCEPT !.ruralUplift = RMax(Zero, RMin(Rat(1, 4), OrZero(v)))])

\* the handler without the clamp: setMaxShare(Number(e.target.value) || 0)
onChangeMaxShare_Unclamped ==
    \E v \in MaxShareInputs : SetParams([params EXCEPT !.maxShare = OrZero(v)])

onChangeMaxShare ==
    \E v \in MaxShareInputs :
        SetParams([params EXCEPT !.maxShare = RMax(Zero, RMin(One, OrZero(v)))])

onChangeMinEuro ==
    \E v \in MinEuroInputs :
        SetParams([params EXCEPT !.minEuro = RMax(Zero, OrZero(v))])

\* the backend answers one waiting compute effect, which runs to setRows
BackendResponds ==
    \E run \in pending, resp \in Responses :
        /\ pending' = pending \ {run}
        /\ pageRows' = computeRows(run, fetchBackendScores(resp))
        /\ lastRun' = [run |-> run, response |-> resp]
        /\ UNCHANGED <<params, hosp, csv, started>>
        /\ UNCHANGED callVars
        /\ UNCHANGED ioVars

NextPage ==
    \/ LoadCsv
    \/ LoadCsvFails
    \/ onChangeBudget
    \/ onChangeRuralUplift
    \/ onChangeMaxShare
    \/ onChangeMinEuro
    \/ BackendResponds

SpecPage == InitPage /\ [][NextPage]_vars

(***************************************************************************)
(* Properties.                                                             *)
(***************************************************************************)
Done(f) == pc = "done" /\ fn = f

abN == Len(args.scores)
saN == Len(args.rows)
Ge0(x) == RLe(Zero, x)
InUnit(x) == RLe(Zero, x) /\ RLe(x, One)
RAbs(x) == IF x.n < 0 THEN RNeg(x) ELSE x
saEurSum == RSum([i \in 1..Len(result.rounded) |-> result.rounded[i].eur])

\* C1: allocateBudget conserves the budget: for a non-empty score map, budget > 0,
\* minEuro >= 0 and maxShare in [0,1] the returned euros sum to exactly the budget.
C1_Conservation ==
    (Done("allocateBudget") /\ abN > 0 /\ RGt(args.budget, Zero)
        /\ Ge0(args.opts.minEuro) /\ InUnit(args.opts.maxShare))
    => RSum(result.alloc) = args.budget

\* a call where the floor and cap passes left a total other than the budget
C1_Witness ==
    /\ Done("allocateBudget") /\ abN > 0 /\ RGt(args.budget, Zero)
    /\ RSum(result.stages.capped) # args.budget
    /\ RSum(result.alloc) = args.budget

\* C2: scoreAndAllocate conserves the budget: for a non-empty row set and
\* budgetEUR > 0 the eur values sum to budgetEUR, up to half a euro of rounding
\* per region, whatever floorEUR / capShare are.
C2_Conservation ==
    (Done("scoreAndAllocate") /\ saN > 0 /\ RGt(args.opt.budgetEUR, Zero))
    => RLe(RMul(Int2R(2), RAbs(RSub(saEurSum, args.opt.budgetEUR))), Int2R(saN))

\* C3: allocateBudget respects the floor: when minEuro * N <= budget and budget > 0,
\* every returned amount is >= 0 and >= minEuro, for every score map and every
\* maxShare of [0,1] (0 standing for no cap).
C3_FloorRespected ==
    (Done("allocateBudget") /\ RGt(args.budget, Zero) /\ Ge0(args.opts.minEuro)
        /\ InUnit(args.opts.maxShare)
        /\ RLe(RMul(args.opts.minEuro, Int2R(abN)), args.budget))
    => \A i \in 1..abN : Ge0(result.alloc[i]) /\ RLe(args.opts.minEuro, result.alloc[i])

\* a call where a region was below the floor, a region was above the cap, and the
\* final amounts are at or above the floor
C3_Witness ==
    /\ Done("allocateBudget") /\ RGt(args.budget, Zero)
    /\ RGt(args.opts.minEuro, Zero)
    /\ RLe(RMul(args.opts.minEuro, Int2R(abN)), args.budget)
    /\ RGt(result.stages.total, Zero)
    /\ \E i \in 1..abN : RLt(result.stages.base[i], args.opts.minEuro)
    /\ \E i \in 1..abN : RGt(result.stages.floored[i], abCapEuro(args.budget, args.opts))
    /\ \A i \in 1..abN : RLe(args.opts.minEuro, result.alloc[i])

\* C4: allocateBudget respects the cap: when maxShare * N >= 1 and budget > 0,
\* every returned amount is <= maxShare * budget.
C4_CapRespected ==
    (Done("allocateBudget") /\ RGt(args.budget, Zero) /\ Ge0(args.opts.minEuro)
        /\ InUnit(args.opts.maxShare)
        /\ RLe(One, RMul(args.opts.maxShare, Int2R(abN))))
    => \A i \in 1..abN : RLe(result.alloc[i], RMul(args.opts.maxShare, args.budget))

\* C5: scoreAndAllocate respects the floor: when floorEUR is given and
\* floorEUR * N <= budgetEUR, every eur is >= floorEUR, for every capShare.
C5_FloorRespected ==
    (Done("scoreAndAllocate") /\ args.opt.floorEUR # Undefined
        /\ RLe(RMul(args.opt.floorEUR, Int2R(saN)), args.opt.budgetEUR))
    => \A i \in 1..saN : RLe(args.opt.floorEUR, result.rounded[i].eur)

\* C6: scoreAndAllocate respects the cap: when capShare is given and
\* capShare * N >= 1, every eur before rounding is <= capShare * budgetEUR, and
\* every rounded eur exceeds it by at most half a euro.
C6_CapRespected ==
    (Done("scoreAndAllocate") /\ args.opt.capShare # Undefined
        /\ RGt(args.opt.budgetEUR, Zero)
        /\ RLe(One, RMul(args.opt.capShare, Int2R(saN))))
    => \A i \in 1..saN :
          LET capB == RMul(args.opt.capShare, args.opt.budgetEUR)
          IN /\ RLe(result.eur[i], capB)
             /\ RLe(result.rounded[i].eur, RAdd(capB, Half))

\* a call where a region was clipped to the cap and the remainder was topped up
C6_Witness ==
    /\ Done("scoreAndAllocate") /\ args.opt.capShare # Undefined
    /\ RGt(args.opt.budgetEUR, Zero)
    /\ RLe(One, RMul(args.opt.capShare, Int2R(saN)))
    /\ \E i \in 1..saN :
          RGt(RMul(result.rounded[i].share, args.opt.budgetEUR),
              RMul(args.opt.capShare, args.opt.budgetEUR))
    /\ \E i \in 1..saN :
          RGt(result.eur[i], RMax(RMul(result.rounded[i].share, args.opt.budgetEUR),
                                  RMax(Zero, OrElse(args.opt.floorEUR, Zero))))

callBudget == IF fn = "allocateBudget" THEN args.budget ELSE args.opt.budgetEUR
callN == IF fn = "allocateBudget" THEN abN ELSE saN
resultLen == IF fn = "allocateBudget" THEN Len(result.alloc) ELSE Len(result.rows)

\* C7: a budget <= 0 is rejected: a call of scoreAndAllocate or allocateBudget with
\* a zero or negative budget ends in an error and returns no allocation.
C7_BudgetRejected ==
    (pc = "done" /\ RLe(callBudget, Zero)) => result.outcome = "error"

\* C8: an empty region set yields an empty result and no error, in both functions,
\* for every budget and every floor / cap setting.
C8_EmptyResult ==
    (pc = "done" /\ callN = 0) => (result.outcome = "returned" /\ resultLen = 0)

\* allocateBudget({}) with a budget above the floors: (budget - floors) / 0 was taken
C8_Witness ==
    /\ Done("allocateBudget") /\ abN = 0 /\ RGt(args.budget, Zero)
    /\ RGt(args.opts.minEuro, Zero)
    /\ result.outcome = "returned" /\ result.alloc = <<>>

\* the scenario of three regions with growth65 = 10, 20, 30 at weight 1
saScenario ==
    /\ fn = "scoreAndAllocate"
    /\ saN = 3
    /\ \A i \in 1..3 : args.rows[i].growth65 = Int2R(10 * i)
    /\ args.w = MkWeights(One, Zero, Zero, Zero, Zero)
    /\ args.opt.budgetEUR = Int2R(300000)
    /\ args.opt.ruralUplift = Undefined

\* the scenario of scores 0, 1/2, 1 with budget 300000 and no uplift, no cap
abScenario ==
    /\ fn = "allocateBudget"
    /\ args.scores = <<Zero, Half, One>>
    /\ args.budget = Int2R(300000)
    /\ args.opts.ruralSet = {}
    /\ args.opts.maxShare = One

\* no floor or cap is active in a scoreAndAllocate call: the options are absent or
\* zero, or every proportional amount lies between the floor and the cap
saNoFloorCap ==
    \/ ~Truthy(args.opt.floorEUR) /\ ~Truthy(args.opt.capShare)
    \/ LET floor == RMax(Zero, OrElse(args.opt.floorEUR, Zero))
           cap == RMax(Zero, RMin(One, OrElse(args.opt.capShare, One)))
       IN \A i \in 1..saN :
             LET p == RMul(result.rounded[i].share, args.opt.budgetEUR)
             IN RLe(floor, p) /\ RLe(p, RMul(cap, args.opt.budgetEUR))

\* no floor or cap is active in an allocateBudget call
abNoFloorCap ==
    \A i \in 1..abN :
        /\ RLe(args.opts.minEuro, result.stages.base[i])
        /\ RLe(result.stages.base[i], abCapEuro(args.budget, args.opts))

saScoreSum == RSum([i \in 1..saN |-> result.rounded[i].score])

\* the shares of a scoreAndAllocate result are score_i / sum of the scores
saSharesProportional ==
    \A i \in 1..saN :
        RMul(result.rounded[i].share, saScoreSum) = result.rounded[i].score

\* the amounts of an allocateBudget result are (score_i / sum) * budget, score_i being
\* the score clamped at 0 and uplifted
abEurosProportional ==
    \A i \in 1..abN :
        RMul(result.alloc[i], result.stages.total)
            = RMul(result.stages.boosted[i], args.budget)

saScenarioResult(eur) ==
    /\ [i \in 1..3 |-> result.rounded[i].score] = <<Zero, Half, One>>
    /\ [i \in 1..3 |-> result.rounded[i].share] = <<Zero, Rat(1, 3), Rat(2, 3)>>
    /\ eur = <<Int2R(0), Int2R(100000), Int2R(200000)>>

C10_FloorEnforcement ==
    /\ (Done("allocateBudget") /\ RGt(result.stages.total, Zero))
       => LET base == result.stages.base
              floored == result.stages.floored
              m == args.opts.minEuro
              low == {i \in 1..abN : RLt(base[i], m)}
              donors == {i \in 1..abN : RGt(base[i], m)}
              deficit == RSumOver([i \in 1..abN |-> RSub(m, base[i])], low)
              surplus == RSumOver([i \in 1..abN |-> RSub(base[i], m)], donors)
          IN /\ \A i \in low : floored[i] = m
             /\ \A i \in donors :
                   RSub(base[i], floored[i])
                       = RMul(deficit, RDiv(RSub(base[i], m), surplus))
             /\ \A i \in (1..abN) \ (low \cup donors) : floored[i] = base[i]
    /\ (Done("allocateBudget") /\ abScenario /\ args.opts.minEuro = Int2R(50000))
       => result.alloc = <<Int2R(50000), Int2R(87500), Int2R(162500)>>

\* the scenario with minEuro = 50000: region 1 raised, regions 2 and 3 donate
C10_Witness ==
    /\ Done("allocateBudget") /\ abScenario /\ args.opts.minEuro = Int2R(50000)
    /\ result.stages.base = <<Int2R(0), Int2R(100000), Int2R(200000)>>
    /\ result.stages.floored = <<Int2R(50000), Int2R(87500), Int2R(162500)>>

\* C11: when the clamped, uplifted scores sum to <= 0, allocateBudget splits
\* equally: every region receives the same amount, and none is below minEuro
\* whenever minEuro * N <= budget.
C11_EqualSplit ==
    (Done("allocateBudget") /\ RLe(result.stages.total, Zero))
    => /\ \A i, j \in 1..abN : result.alloc[i] = result.alloc[j]
       /\ (Ge0(args.opts.minEuro)
             /\ RLe(RMul(args.opts.minEuro, Int2R(abN)), args.budget))
          => \A i \in 1..abN : RLe(args.opts.minEuro, result.alloc[i])

\* three regions without a positive score, an affordable positive floor
C11_Witness ==
    /\ Done("allocateBudget") /\ abN = 3 /\ RLe(result.stages.total, Zero)
    /\ RGt(args.opts.minEuro, Zero)
    /\ RLt(RMul(args.opts.minEuro, Int2R(abN)), args.budget)
    /\ \A i \in 1..abN : result.alloc[i] = RDiv(args.budget, Int2R(3))

Benefit == {"growth65", "oadr"}
Cost == {"dwellingsPer1k65", "medianIncome", "grantsPer65"}
Indicators == Benefit \cup Cost

\* the regions whose value of indicator f is finite
finiteAt(f) == {i \in 1..saN : IsFinite(args.rows[i][f])}

\* the finite values of indicator f are all equal (and there is one)
degenerateAt(f) ==
    /\ finiteAt(f) # {}
    /\ \A i, j \in finiteAt(f) : args.rows[i][f] = args.rows[j][f]

\* the finite values of indicator f are not all equal
spreadAt(f) == \E i, j \in finiteAt(f) : args.rows[i][f] # args.rows[j][f]

largestAt(f, i) == \A j \in finiteAt(f) : RLe(args.rows[j][f], args.rows[i][f])
smallestAt(f, i) == \A j \in finiteAt(f) : RLe(args.rows[i][f], args.rows[j][f])

\* C12: when the finite values of an indicator are equal across all regions
\* (max == min), every region's normalized score for it is exactly 0.5, for benefit
\* and cost indicators alike.
C12_DegenerateHalf ==
    Done("scoreAndAllocate")
    => \A f \in Indicators :
          degenerateAt(f) => \A i \in 1..saN : result.norm[i][f] = Half

\* three regions, growth65 equal where finite (one region NaN), medianIncome equal
C12_Witness ==
    /\ Done("scoreAndAllocate") /\ saN = 3
    /\ degenerateAt("growth65") /\ finiteAt("growth65") # 1..saN
    /\ degenerateAt("medianIncome") /\ finiteAt("medianIncome") = 1..saN
    /\ \A i \in 1..saN : result.norm[i].growth65 = Half /\ result.norm[i].medianIncome = Half

\* C13: for an indicator with max > min, the normalized score of every region with
\* a finite value lies in [0,1]; for the benefit indicators the largest raw value
\* scores 1 and the smallest 0, for the cost indicators the smallest raw value
\* scores 1 and the largest 0.
C13_RangeDirection ==
    Done("scoreAndAllocate")
    => \A f \in Indicators :
          spreadAt(f) =>
             \A i \in finiteAt(f) :
                /\ InUnit(result.norm[i][f])
                /\ largestAt(f, i)
                   => result.norm[i][f] = (IF f \in Benefit THEN One ELSE Zero)
                /\ smallestAt(f, i)
                   => result.norm[i][f] = (IF f \in Benefit THEN Zero ELSE One)

\* three regions with growth65 10, 20, 30 and a spread of medianIncome: the middle
\* region scores strictly between 0 and 1 on growth65
C13_Witness ==
    /\ Done("scoreAndAllocate") /\ saN = 3
    /\ \A i \in 1..3 : args.rows[i].growth65 = Int2R(10 * i)
    /\ spreadAt("medianIncome") /\ finiteAt("medianIncome") = 1..saN
    /\ result.norm[2].growth65 = Half
    /\ \E i \in 1..3 : result.norm[i].medianIncome = One
    /\ \E i \in 1..3 : result.norm[i].medianIncome = Zero

\* the weighted sum of region i over the indicators where its value is finite
finiteContribution(i) ==
    LET c(f, wt) == IF IsFinite(args.rows[i][f]) THEN RMul(wt, result.norm[i][f]) ELSE Zero
    IN RAdd(RAdd(RAdd(RAdd(c("growth65", args.w.wGrowth), c("oadr", args.w.wOadr)),
                      c("dwellingsPer1k65", args.w.wHousingInv)),
                 c("medianIncome", args.w.wIncomeInv)),
            c("grantsPer65", args.w.wGrantsInv))

\* C14: a non-finite raw value contributes 0 to its region's score, so every
\* region's composite score, share and eur are finite numbers.
C14_NonFiniteIsZero ==
    Done("scoreAndAllocate")
    => \A i \in 1..saN :
          /\ result.rounded[i].score = finiteContribution(i)
          /\ IsFinite(result.rounded[i].score)
          /\ IsFinite(result.rounded[i].share)
          /\ IsFinite(result.rounded[i].eur)

\* ruralIndex limited to [0,1], an absent one being 0
limitedIndex(i) == RMax(Zero, RMin(One, OrElse(args.rows[i].ruralIndex, Zero)))

\* the call's rows with region i's ruralIndex set to 0
withZeroIndex(i) == [args.rows EXCEPT ![i].ruralIndex = Zero]

\* C15: each region's score is the weighted sum of its normalized indicators
\* multiplied by (1 + ruralUplift * ruralIndex), ruralIndex limited to [0,1] (for a
\* ruralUplift of 0 or more; an absent one multiplies by 1); a region whose
\* ruralIndex is absent gets exactly the score it would get with ruralIndex = 0,
\* whatever ruralUplift is.
C15_RuralUplift ==
    Done("scoreAndAllocate")
    => \A i \in 1..saN :
          /\ args.opt.ruralUplift = Undefined
             => result.rounded[i].score = result.weighted[i]
          /\ (args.opt.ruralUplift # Undefined /\ Ge0(args.opt.ruralUplift))
             => result.rounded[i].score =
                   RMul(result.weighted[i],
                        RAdd(One, RMul(args.opt.ruralUplift, limitedIndex(i))))
          /\ args.rows[i].ruralIndex = Undefined
             => result.rounded[i].score =
                   saItems(withZeroIndex(i), args.w, args.opt)[i].score

\* uplift 0.25; region 1 has ruralIndex 2 (limited to 1), region 2 has none: region 1
\* scores 1.25 times its weighted sum, region 2 exactly its weighted sum
C15_Witness ==
    /\ Done("scoreAndAllocate") /\ saN = 2
    /\ args.opt.ruralUplift = Rat(1, 4)
    /\ args.rows[1].ruralIndex = Int2R(2)
    /\ args.rows[2].ruralIndex = Undefined
    /\ RGt(result.weighted[1], Zero) /\ RGt(result.weighted[2], Zero)
    /\ result.rounded[1].score = RMul(result.weighted[1], Rat(5, 4))
    /\ result.rounded[2].score = result.weighted[2]

\* the uplift limited to [0, 0.25]
clampedUplift(u) == RMax(Zero, RMin(Rat(1, 4), u))

\* C16: the uplift parameter is clamped to [0, 0.25]: scoreAndAllocate and
\* allocateBudget called with ruralUplift > 0.25 return the same result as with
\* 0.25, and with ruralUplift < 0 the same result as with 0.
C16_UpliftClamped ==
    /\ (Done("scoreAndAllocate") /\ args.opt.ruralUplift # Undefined)
       => result.rows =
             scoreAndAllocate(args.rows, args.w,
                 [args.opt EXCEPT !.ruralUplift = clampedUplift(args.opt.ruralUplift)])
    /\ Done("allocateBudget")
       => result.alloc =
             allocateBudget(args.scores, args.budget,
                 [args.opts EXCEPT !.ruralUplift = clampedUplift(args.opts.ruralUplift)])

\* C16 for scoreAndAllocate alone
C16_UpliftClampedSA ==
    (Done("scoreAndAllocate") /\ args.opt.ruralUplift # Undefined)
    => result.rows =
          scoreAndAllocate(args.rows, args.w,
              [args.opt EXCEPT !.ruralUplift = clampedUplift(args.opt.ruralUplift)])

\* C16 for allocateBudget alone
C16_UpliftClampedAB ==
    Done("allocateBudget")
    => result.alloc =
          allocateBudget(args.scores, args.budget,
              [args.opts EXCEPT !.ruralUplift = clampedUplift(args.opts.ruralUplift)])

\* the weights w, each multiplied by c
scaled(w, c) ==
    MkWeights(RMul(c, w.wGrowth), RMul(c, w.wOadr), RMul(c, w.wHousingInv),
              RMul(c, w.wIncomeInv), RMul(c, w.wGrantsInv))

\* the share and eur of every region, in input order
sharesAndEuros(rounded) ==
    [i \in 1..Len(rounded) |-> <<rounded[i].share, rounded[i].eur>>]

\* C17: multiplying all five weights by the same constant c > 0 leaves every
\* region's share and eur unchanged, with or without floor/cap options.
C17_WeightScale ==
    Done("scoreAndAllocate")
    => \A c \in {Half, Int2R(10)} :
          sharesAndEuros(saRounded(args.rows, scaled(args.w, c), args.opt))
             = sharesAndEuros(result.rounded)

\* the default weights (sum 1) on three regions with different scores under a
\* floor and a cap: the weights times 10 give other scores and the same shares
C17_Witness ==
    /\ Done("scoreAndAllocate") /\ saN = 3
    /\ \A i \in 1..3 : args.rows[i].growth65 = Int2R(10 * i)
    /\ args.w = MkWeights(Rat(3, 10), Rat(1, 4), Rat(1, 5), Rat(3, 20), Rat(1, 10))
    /\ Truthy(args.opt.floorEUR) /\ Truthy(args.opt.capShare)
    /\ RGt(args.opt.budgetEUR, Zero)
    /\ LET other == saRounded(args.rows, scaled(args.w, Int2R(10)), args.opt)
       IN /\ \A i \in 1..3 : other[i].score = RMul(Int2R(10), result.rounded[i].score)
          /\ \A i \in 1..3 : other[i].score # result.rounded[i].score
          /\ sharesAndEuros(other) = sharesAndEuros(result.rounded)

\* the values a raw benefit indicator is raised to
RaisedVals == {Int2R(2), Int2R(15), Int2R(20), Int2R(30), Int2R(40)}

\* the eur of region i when its indicator f is v, everything else as in the call
eurWith(i, f, v) == saRounded([args.rows EXCEPT ![i][f] = v], args.w, args.opt)[i].eur

\* C18: raising one region's raw value of a benefit indicator (growth65 or oadr),
\* every other input, weight and option fixed, never lowers that region's eur.
C18_Monotone ==
    Done("scoreAndAllocate")
    => \A i \in 1..saN : \A f \in Benefit : \A v \in RaisedVals :
          RLt(args.rows[i][f], v) => RLe(result.rounded[i].eur, eurWith(i, f, v))

\* the floor of the call, and whether floor * N exceeds the budget
callFloor == IF fn = "allocateBudget" THEN args.opts.minEuro ELSE OrElse(args.opt.floorEUR, Zero)
floorUnaffordable == RGt(callFloor, Zero) /\ RGt(RMul(callFloor, Int2R(callN)), callBudget)

\* C20: a floor that cannot be afforded (floor * N > budget) is surfaced as a
\* warning or error: the allocator does not return an allocation, it reports.
C20_UnaffordableFloorSurfaced ==
    (pc = "done" /\ RGt(callBudget, Zero) /\ floorUnaffordable)
    => result.outcome # "returned"

\* the request succeeded with a scores object
requestSucceeded(resp) ==
    resp.fetch = "resolves" /\ resp.ok /\ resp.body.tag = "scores"

\* inverse of hospitals per 100k aged 65+, else inverse of hospital count, else 0
inverseAccess(h, la) ==
    LET per == IF la \in DOMAIN h THEN h[la].hospitals_per_100k_65 ELSE Undefined
        total == IF la \in DOMAIN h THEN h[la].hospitals_total ELSE Zero
    IN IF per # Undefined /\ IsFinite(per) /\ per.n > 0 THEN RDiv(One, per)
       ELSE IF IsFinite(total) /\ total.n > 0 THEN RDiv(One, total)
       ELSE Zero

\* the rows are the LA_LIST rows of the allocation of the score map used
publishedFrom(used, run) ==
    LET p == run.params
        euros == allocateBudget(used, p.budget,
                    [maxShare |-> p.maxShare, minEuro |-> p.minEuro,
                     ruralUplift |-> p.ruralUplift, ruralSet |-> ruralSet])
        sum == OrOne(RSum([k \in 1..Len(used) |-> RMax(Zero, used[k])]))
    IN /\ Len(pageRows) = NumLA
       /\ {pageRows[k].la : k \in 1..NumLA} = LA_LIST
       /\ \A k \in 1..NumLA :
             LET r == pageRows[k]
             IN /\ r.euros = atOrZero(euros, r.la)
                /\ r.score = RDiv(RMax(Zero, atOrZero(used, r.la)), sum)

\* C19: when the backend request fails (the fetch throws, the status is not OK, or
\* the body has no scores field) the page still publishes an allocation, computed
\* from the fallback score (inverse of hospitals per 100k aged 65+, else inverse of
\* hospital count, else 0); the backend scores are used exactly when the request
\* succeeded with a scores object.
C19_BackendFallback ==
    lastRun # NoRun
    => LET run == lastRun.run
           resp == lastRun.response
       IN IF requestSucceeded(resp)
          THEN publishedFrom(resp.body.scores, run)
          ELSE publishedFrom([la \in LA_LIST |-> inverseAccess(run.hosp, la)], run)

\* a compute effect started after the CSV load got a response that is not ok with a
\* scores object in its body: the published rows come from the fallback scores and
\* differ from the rows the body's scores would give
C19_Witness ==
    /\ lastRun # NoRun
    /\ lastRun.run.hosp \in HospMaps
    /\ lastRun.response.fetch = "resolves" /\ ~lastRun.response.ok
    /\ lastRun.response.body.tag = "scores"
    /\ \E k \in 1..NumLA : RGt(pageRows[k].euros, Zero)
    /\ pageRows = computeRows(lastRun.run, NullScores)
    /\ pageRows # computeRows(lastRun.run, SomeScores(lastRun.response.body.scores))

\* C21: the result is ordered by descending euros: in the array returned by
\* scoreAndAllocate and in the rows the page publishes, every entry's euros is >=
\* the euros of the entry after it.
C21_SortedDesc ==
    /\ Done("scoreAndAllocate")
       => \A k \in 1..(Len(result.rows) - 1) :
             RLe(result.rows[k + 1].eur, result.rows[k].eur)
    /\ \A k \in 1..(Len(pageRows) - 1) :
          RLe(pageRows[k + 1].euros, pageRows[k].euros)


(***************************************************************************)
(* A sequence of calls made by one caller.  args is the list of the calls  *)
(* (function and argument objects the caller holds), result.returned the   *)
(* values returned so far.  Neither function assigns to a property of its  *)
(* parameters or to a variable outside its body (mcda.ts has only const    *)
(* functions at module level, page.tsx only LA_LIST), so a call reads its  *)
(* arguments only and leaves args as they are.                             *)
(***************************************************************************)
MaxCalls == 3

SessionInputs ==
    {[fn |-> "allocateBudget",
      args |-> [scores |-> s, budget |-> Int2R(100000),
                opts |-> [maxShare |-> Half, minEuro |-> Zero,
                          ruralUplift |-> Rat(1, 4), ruralSet |-> {1}]]] :
        s \in {<<One, One>>, <<One, Int2R(3)>>}}
    \cup
    {[fn |-> "scoreAndAllocate",
      args |-> [rows |-> [i \in 1..2 |-> MkRow(i, <<g[i], 1>>)],
                w |-> MkWeights(One, Zero, Zero, Zero, Zero),
                opt |-> [ruralUplift |-> Undefined, floorEUR |-> Undefined,
                         capShare |-> Undefined, budgetEUR |-> Int2R(300000)]]] :
        g \in {<<10, 20>>, <<20, 10>>}}

InitCalls ==
    /\ PageUnmounted
    /\ RouteIdle
    /\ HookUnmounted
    /\ fn = "session"
    /\ args \in [1..MaxCalls -> SessionInputs]
    /\ pc = "ready"
    /\ result = [outcome |-> "returned", returned |-> <<>>]

\* a variant in which the second call of a session hands back the object the
\* first call returned
applyCall_SharedResult(c, earlier) ==
    IF Len(earlier) = 1 THEN earlier[1]
    ELSE IF c.fn = "allocateBudget"
         THEN allocateBudget(c.args.scores, c.args.budget, c.args.opts)
         ELSE scoreAndAllocate(c.args.rows, c.args.w, c.args.opt)

\* the value a call returns; earlier are the values returned before it, which
\* the code has no way to read (no module-level state)
applyCall(c, earlier) ==
    IF c.fn = "allocateBudget"
    THEN allocateBudget(c.args.scores, c.args.budget, c.args.opts)
    ELSE scoreAndAllocate(c.args.rows, c.args.w, c.args.opt)

SessionCall ==
    /\ fn = "session"
    /\ pc = "ready"
    /\ result' = [outcome |-> "returned",
                  returned |-> Append(result.returned,
                                      applyCall(args[Len(result.returned) + 1],
                                                result.returned))]
    /\ pc' = IF Len(result.returned) + 1 = Len(args) THEN "done" ELSE "ready"
    /\ UNCHANGED <<fn, args>>
    /\ UNCHANGED pageVars
    /\ UNCHANGED ioVars

NextCalls == SessionCall

SpecCalls == InitCalls /\ [][NextCalls]_vars

C23_ZeroScoresFloorHonored ==
    (Done("allocateBudget") /\ abN > 0 /\ RLe(result.stages.total, Zero)
        /\ RGt(RMul(args.opts.minEuro, Int2R(abN)), args.budget))
    => /\ \A i \in 1..abN : RLe(args.opts.minEuro, result.alloc[i])
       /\ RGt(RSum(result.alloc), args.budget)

\* the regions whose allocation before the cap pass is above / strictly under
\* maxShare * budget, and the amount clipped off
capOf == RMul(args.opts.maxShare, args.budget)
aboveCap == {i \in 1..abN : RGt(result.stages.floored[i], capOf)}
underCap == {i \in 1..abN : RLt(result.stages.floored[i], capOf)}
clippedExcess ==
    RSumOver([i \in 1..abN |-> RSub(result.stages.floored[i], capOf)], aboveCap)
receiverScores == RSumOver(result.stages.boosted, underCap)

\* C24: cap enforcement in allocateBudget (budget > 0, maxShare in (0,1], scores
\* not all zero): every region above maxShare * budget is returned at the cap,
\* and the whole excess goes to the regions strictly under the cap: each
\* receiver is returned its allocation plus excess * (its score / the sum of the
\* receivers' scores), the score being the one the allocator weights by (clamped
\* at 0, uplifted), and the receivers together get the whole excess.
C24_CapEnforcement ==
    (Done("allocateBudget") /\ RGt(args.budget, Zero)
        /\ RGt(args.opts.maxShare, Zero) /\ RLe(args.opts.maxShare, One)
        /\ RGt(result.stages.total, Zero))
    => /\ \A i \in aboveCap : result.alloc[i] = capOf
       /\ (aboveCap # {} /\ receiverScores # Zero)
          => \A i \in underCap :
                result.alloc[i] =
                    RAdd(result.stages.floored[i],
                         RMul(clippedExcess,
                              RDiv(result.stages.boosted[i], receiverScores)))
       /\ (aboveCap # {} /\ underCap # {})
          => RSumOver(result.alloc, underCap)
               = RAdd(RSumOver(result.stages.floored, underCap), clippedExcess)

\* the ranges the page's inputs are clamped to (amounts in million euro)
paramsInRange(p) ==
    /\ RLe(Zero, p.ruralUplift) /\ RLe(p.ruralUplift, Rat(1, 4))
    /\ RLe(Zero, p.maxShare) /\ RLe(p.maxShare, One)
    /\ RLe(Zero, p.minEuro)

\* C25: after any sequence of edits to the page's inputs (numbers in or out of
\* range, text that is not a number) the parameter state has ruralUplift in
\* [0, 0.25], maxShare in [0, 1] and minEuro >= 0, and so have the parameters of
\* every computation that is waiting to call, or has called, allocateBudget.
C25_ParamsInRange ==
    /\ paramsInRange(params)
    /\ \A run \in pending : paramsInRange(run.params)
    /\ lastRun # NoRun => paramsInRange(lastRun.run.params)

\* an out-of-range maxShare and an out-of-range or non-numeric minEuro were
\* entered, and the computation started by the second edit has finished
C25_Witness ==
    /\ lastRun # NoRun
    /\ lastRun.run.params = params
    /\ params.maxShare = One
    /\ params.minEuro = Zero

\* the rows a computation on the latest state values publishes for some answer
\* of the backend
rowsFromLatest ==
    {computeRows([id |-> 0, params |-> params, hosp |-> hosp], fetchBackendScores(resp)) :
        resp \in Responses}

\* C26: no stale result on the page: once every started computation has finished,
\* the published rows are rows computed from the latest hospital data and
\* parameter values, in whatever order the backend answered.
C26_NoStaleResult ==
    (pending = {} /\ lastRun # NoRun) => pageRows \in rowsFromLatest

\* const total = rows.reduce((s,r)=> s + r.euros, 0)
pageTotal == RSum([k \in 1..Len(pageRows) |-> pageRows[k].euros])

\* C27: the allocated total the page shows equals the budget: after a computation
\* with budget > 0 has finished, the euros of the published rows (one per local
\* authority) sum to that budget, whether the scores came from the backend, with
\* whatever region keys, or from the local fallback.
C27_TotalIsBudget ==
    (lastRun # NoRun /\ RGt(lastRun.run.params.budget, Zero))
    => /\ Len(pageRows) = NumLA
       /\ pageTotal = lastRun.run.params.budget

(***************************************************************************)
(* The PxStat proxy route: fetchWithRetry and GET.  The steps are the      *)
(* stretches of the two async functions between their awaits.              *)
(***************************************************************************)
\* GET calls fetchWithRetry(url, 3); 3 is also the default of tries
RouteTries == 3

Msg(text, n) == [text |-> text, n |-> n]

\* what an upstream fetch can settle with: a response (ok or not, its body
\* JSON or not) or a rejection
JsonBodies == {"dataset A", "dataset B"}
OkResponses ==
    {[kind |-> "response", ok |-> TRUE, status |-> 200, body |-> b] :
        b \in JsonBodies \cup {"<html>"}}
FailedResponses ==
    {[kind |-> "response", ok |-> FALSE, status |-> s, body |-> "<html>"] :
        s \in {404, 500}}
Rejections ==
    {[kind |-> "rejected", error |-> [kind |-> "error", message |-> Msg(m, 0)]] :
        m \in {"fetch failed", "aborted"}}

\* new Error(`status ${res.status}`)
statusError(res) == [kind |-> "error", message |-> Msg("status", res.status)]

\* `${e?.message || e}`
errText(e) == IF e.kind = "undefined" THEN Msg("undefined", 0) ELSE e.message

\* NextResponse.json({ error: `PxStat unreachable: ...` }, { status: 503 })
unreachable(e) == [status |-> 503, body |-> [error |-> errText(e)]]

InitRoute ==
    /\ PageUnmounted
    /\ CallIdle
    /\ HookUnmounted
    /\ \/ \E t \in 0..RouteTries :
             route = [NoRoute EXCEPT !.entry = "fetchWithRetry", !.tries = t, !.pc = "loop"]
       \/ route = [NoRoute EXCEPT !.entry = "GET", !.tries = RouteTries, !.pc = "loop"]

RouteFrame == UNCHANGED <<callVars, pageVars, hook>>

\* i < tries: fetch(url, { cache: "no-store" }) is issued and awaited
IssueFetch ==
    /\ route.pc = "loop"
    /\ route.i < route.tries
    /\ route' = [route EXCEPT !.pc = "fetching", !.inFlight = @ + 1]
    /\ RouteFrame

\* the fetch resolves with res.ok: fetchWithRetry returns res; in GET the
\* caller goes on to await res.json()
FetchResolvesOk ==
    /\ route.pc = "fetching"
    /\ \E res \in OkResponses :
          route' = [route EXCEPT !.inFlight = @ - 1,
                                 !.settled = Append(@, res),
                                 !.res = res,
                                 !.pc = IF route.entry = "GET" THEN "json" ELSE "returned"]
    /\ RouteFrame

\* a variant that forgets the status error
FetchResolvesNotOk_NoLastErr ==
    /\ route.pc = "fetching"
    /\ \E res \in FailedResponses :
          route' = [route EXCEPT !.inFlight = @ - 1,
                                 !.settled = Append(@, res),
                                 !.pc = "backoff"]
    /\ RouteFrame

\* the fetch resolves with !res.ok: lastErr = new Error(`status ...`)
FetchResolvesNotOk ==
    /\ route.pc = "fetching"
    /\ \E res \in FailedResponses :
          route' = [route EXCEPT !.inFlight = @ - 1,
                                 !.settled = Append(@, res),
                                 !.lastErr = statusError(res),
                                 !.pc = "backoff"]
    /\ RouteFrame

\* the fetch rejects: catch (e) { lastErr = e }
FetchRejects ==
    /\ route.pc = "fetching"
    /\ \E rej \in Rejections :
          route' = [route EXCEPT !.inFlight = @ - 1,
                                 !.settled = Append(@, rej),
                                 !.lastErr = rej.error,
                                 !.pc = "backoff"]
    /\ RouteFrame

\* the backoff timer fires; i++
BackoffElapses ==
    /\ route.pc = "backoff"
    /\ route' = [route EXCEPT !.i = @ + 1, !.pc = "loop"]
    /\ RouteFrame

\* i >= tries: throw lastErr; in GET the catch block answers 503
ThrowLastErr ==
    /\ route.pc = "loop"
    /\ route.i >= route.tries
    /\ route' = [route EXCEPT
                    !.thrown = route.lastErr,
                    !.answers = IF route.entry = "GET"
                                THEN Append(@, unreachable(route.lastErr)) ELSE @,
                    !.pc = IF route.entry = "GET" THEN "answered" ELSE "threw"]
    /\ RouteFrame

\* res.json() resolves: return NextResponse.json(data, { status: 200 })
JsonResolves ==
    /\ route.pc = "json"
    /\ route.res.body \in JsonBodies
    /\ route' = [route EXCEPT
                    !.answers = Append(@, [status |-> 200, body |-> [data |-> route.res.body]]),
                    !.pc = "answered"]
    /\ RouteFrame

\* a variant in which the rejection of res.json() is not caught
JsonRejects_Escapes ==
    /\ route.pc = "json"
    /\ route.res.body \notin JsonBodies
    /\ route' = [route EXCEPT !.escaped = TRUE, !.pc = "rejected"]
    /\ RouteFrame

\* res.json() rejects (the body is not JSON): the catch block answers 503
JsonRejects ==
    /\ route.pc = "json"
    /\ route.res.body \notin JsonBodies
    /\ route' = [route EXCEPT
                    !.answers = Append(@, unreachable([kind |-> "error",
                                    message |-> Msg("Unexpected token", 0)])),
                    !.pc = "answered"]
    /\ RouteFrame

NextRoute ==
    \/ IssueFetch
    \/ FetchResolvesOk
    \/ FetchResolvesNotOk
    \/ FetchRejects
    \/ BackoffElapses
    \/ ThrowLastErr
    \/ JsonResolves
    \/ JsonRejects

\* every upstream fetch settles, timers fire and the runtime resumes the function
SpecRoute == InitRoute /\ [][NextRoute]_vars /\ WF_vars(NextRoute)

\* an attempt that succeeded, and the error a failed attempt leaves
succeeded(o) == o.kind = "response" /\ o.ok
errorOfAttempt(o) == IF o.kind = "rejected" THEN o.error ELSE statusError(o)
attempts == Len(route.settled) + route.inFlight
noneSucceeded == \A k \in 1..Len(route.settled) : ~succeeded(route.settled[k])

fetchWithRetryOrderly ==
    /\ route.inFlight \in {0, 1}
    /\ attempts <= route.tries
    /\ (~noneSucceeded) => route.res # NoRes
    /\ route.res # NoRes
       => /\ route.inFlight = 0
          /\ Len(route.settled) > 0
          /\ route.res = route.settled[Len(route.settled)]
          /\ succeeded(route.res)
          /\ \A k \in 1..(Len(route.settled) - 1) : ~succeeded(route.settled[k])
    /\ route.thrown # NoErr
       => /\ route.res = NoRes
          /\ route.inFlight = 0
          /\ noneSucceeded
          /\ Len(route.settled) > 0
             => route.thrown = errorOfAttempt(route.settled[Len(route.settled)])

\* C28: fetchWithRetry(url, tries) issues its fetches one after another (never
\* two in flight) and at most tries of them; it returns the first response
\* whose ok flag is set and issues no fetch after that; when no attempt
\* succeeded it throws the error of the last attempt (the exception fetch threw
\* or the status error); and every call ends in one of the two ways.
C28_FetchWithRetry ==
    /\ [][/\ fetchWithRetryOrderly'
          /\ (route.res # NoRes \/ route.thrown # NoErr)
             => (route.settled' = route.settled /\ route.inFlight' = route.inFlight)]_vars
    /\ (route.entry # "none") ~> (route.res # NoRes \/ route.thrown # NoErr)

\* three attempts failed in different ways and the call threw the last error
C28_Witness ==
    /\ route.entry = "fetchWithRetry"
    /\ route.pc = "threw"
    /\ Len(route.settled) = RouteTries
    /\ route.settled[2].kind = "response"
    /\ route.settled[RouteTries].kind = "rejected"
    /\ route.thrown = route.settled[RouteTries].error

\* some attempt returned an OK response whose body parsed
okAndParsed ==
    \E k \in 1..Len(route.settled) :
        succeeded(route.settled[k]) /\ route.settled[k].body \in JsonBodies

routeAnswersOnce ==
    route.entry = "GET"
    => /\ ~route.escaped
       /\ attempts <= RouteTries
       /\ Len(route.answers) <= 1
       /\ route.pc = "answered" <=> Len(route.answers) = 1
       /\ Len(route.answers) = 1
          => IF okAndParsed
             THEN route.answers[1] =
                     [status |-> 200,
                      body |-> [data |-> route.settled[Len(route.settled)].body]]
             ELSE /\ route.answers[1].status = 503
                  /\ DOMAIN route.answers[1].body = {"error"}

\* C29: the PxStat proxy route answers exactly once and lets no exception
\* escape, every upstream fetch settling: GET answers 200 with the upstream JSON
\* when one of at most 3 attempts returned an OK response whose body parsed, and
\* 503 with an error message in every other case.
C29_RouteAnswersOnce ==
    /\ []routeAnswersOnce
    /\ (route.entry = "GET") ~> (route.pc = "answered")

\* GET answered 200 after two failed attempts
C29_Witness ==
    /\ route.entry = "GET"
    /\ route.pc = "answered"
    /\ Len(route.settled) = RouteTries
    /\ route.answers[1].status = 200

(***************************************************************************)
(* The hook useDemandData after mounting: the effect has run once.  The    *)
(* parameters (years, regions, cohort, baselineYear) are the values of     *)
(* HookDeps; the data a load computes is tagged with the parameters of     *)
(* its effect run.                                                         *)
(***************************************************************************)
MaxLoads == 3

HookDeps == {1, 2}
LoadErrors == {"Failed to fetch /data/demand_fact.csv (404)", "Failed to fetch /data/oadr.csv (500)"}

InitHook ==
    /\ PageUnmounted
    /\ CallIdle
    /\ RouteIdle
    /\ \E d \in HookDeps :
          hook = [NoHook EXCEPT !.mounted = TRUE, !.deps = d, !.started = 1,
                                !.loads = {[id |-> 1, deps |-> d, cancelled |-> FALSE]}]

HookFrame == UNCHANGED <<callVars, pageVars, route>>

\* the cleanup of an effect run: cancelled = true
cancelAll(loads) == {[l EXCEPT !.cancelled = TRUE] : l \in loads}

\* a render with other parameters: the cleanup of the previous run, then the
\* effect again
ChangeParams ==
    /\ hook.mounted
    /\ hook.started < MaxLoads
    /\ \E d \in HookDeps \ {hook.deps} :
          hook' = [hook EXCEPT
                      !.deps = d,
                      !.started = @ + 1,
                      !.loads = cancelAll(@) \cup
                                {[id |-> hook.started + 1, deps |-> d, cancelled |-> FALSE]},
                      !.latest = NoOutcome]
    /\ HookFrame

\* the component unmounts: the cleanup of the last run
Unmount ==
    /\ hook.mounted
    /\ hook' = [hook EXCEPT !.mounted = FALSE, !.loads = cancelAll(@)]
    /\ HookFrame

\* the outcome of the latest run's load, once it has settled
latestAfter(l, outcome) == IF l.id = hook.started THEN outcome ELSE hook.latest

\* a variant without the test of cancelled
LoadSucceeds_IgnoresCancelled ==
    /\ \E l \in hook.loads :
          hook' = [hook EXCEPT
                      !.loads = @ \ {l},
                      !.st = [loading |-> FALSE, err |-> "null", data |-> [of |-> l.deps]],
                      !.latest = latestAfter(l, [kind |-> "data", of |-> l.deps]),
                      !.skipped = IF l.cancelled THEN @ + 1 ELSE @]
    /\ HookFrame

\* both fetches resolved and the rows were computed: if (!cancelled) setSt({...})
LoadSucceeds ==
    /\ \E l \in hook.loads :
          hook' = [hook EXCEPT
                      !.loads = @ \ {l},
                      !.st = IF l.cancelled THEN @
                             ELSE [loading |-> FALSE, err |-> "null",
                                   data |-> [of |-> l.deps]],
                      !.latest = latestAfter(l, [kind |-> "data", of |-> l.deps]),
                      !.skipped = IF l.cancelled THEN @ + 1 ELSE @]
    /\ HookFrame

\* a fetch failed or the computation threw: if (!cancelled) setSt(s => ({...s,
\* loading: false, err: String(e?.message ?? e)}))
LoadFails ==
    /\ \E l \in hook.loads, e \in LoadErrors :
          hook' = [hook EXCEPT
                      !.loads = @ \ {l},
                      !.st = IF l.cancelled THEN @
                             ELSE [@ EXCEPT !.loading = FALSE, !.err = e],
                      !.latest = latestAfter(l, [kind |-> "error", message |-> e]),
                      !.skipped = IF l.cancelled THEN @ + 1 ELSE @]
    /\ HookFrame

NextHook ==
    \/ ChangeParams
    \/ Unmount
    \/ LoadSucceeds
    \/ LoadFails

SpecHook == InitHook /\ [][NextHook]_vars

\* the state holds the outcome of the load for the latest parameters
holdsLatestOutcome ==
    (hook.mounted /\ hook.loads = {})
    => /\ ~hook.st.loading
       /\ hook.latest.kind \in {"data", "error"}
       /\ hook.latest.kind = "data"
          => (hook.st.err = "null" /\ hook.st.data = [of |-> hook.deps])
       /\ hook.latest.kind = "error" => hook.st.err = hook.latest.message

\* C30: cancelled loads never write state in useDemandData: once the parameters
\* have changed or the component has unmounted, the load started for the old
\* parameters sets neither data nor error (every write of the state is made by
\* the load of the latest effect run, while mounted), and after all loads have
\* settled the state holds the outcome of the load for the latest parameters.
C30_CancelledLoadsSilent ==
    [][/\ hook.st' # hook.st
          => /\ hook.mounted
             /\ \E l \in hook.loads \ hook.loads' :
                   l.id = hook.started /\ l.deps = hook.deps /\ ~l.cancelled
       /\ holdsLatestOutcome']_vars

\* two loads for old parameters settled after the parameters had changed, and
\* the state holds the data for the latest parameters
C30_Witness ==
    /\ hook.mounted
    /\ hook.loads = {}
    /\ hook.skipped = 2
    /\ hook.latest.kind = "data"
    /\ hook.st.data = [of |-> hook.deps]
=============================================================================
